---- MODULE Spec2Model ----
(***************************************************************************)
(* Model of the instance cycling scheduler of src/main.py: the decision    *)
(* loop run_management (a thread), the Tk main thread (start_cycle,        *)
(* stop_cycle, update_ui, close_window), the queue they share, and the     *)
(* emulator instances they query and control through MuMuManager.          *)
(***************************************************************************)
EXTENDS Integers, Sequences, FiniteSets, TLC

(* ------------------------------ bounds --------------------------------- *)
\* the clock stops at MaxTime seconds
MaxTime == 10
\* clicks on "Iniciar Ciclo" / "Parar Ciclo" the user makes
MaxClicks == 3
\* the cycle count shown by the window is followed up to MaxCount
MaxCount == 2
\* polls of one verification window (the code: 90 s window, one poll per 5 s)
MaxPolls == 2
\* the liveness specification follows the clock up to MaxLiveTime seconds and the
\* time since last_routine_run up to that much
MaxLiveTime == 20
\* error events of the decision loop waiting in the queue
MaxErrors == 1
\* longest list of indices given to one control_instances call
MaxCtlLen == 3
\* largest pool of the rotation arithmetic specification
MaxPool == 5
\* cycles followed by the rotation arithmetic specification
MaxRotCycles == 5

(* --------------------------- program constants ------------------------- *)
\* validate_cycle_interval: "Intervalo minimo e 10 segundos"
MinInterval == 10
\* the instance with is_main = True
MainVm == 0
\* active_vm_indices of the concurrent model: the sorted non-main indices
Pool == <<10, 11>>
\* last_routine_run = None
None == -1
\* last_routine_range = None
NoRange == <<0, 0>>
START == "launch"
STOP == "shutdown"

PoolSet == {Pool[i] : i \in 1..Len(Pool)}
Workers == {MainVm} \cup PoolSet
\* the text of an entry field: int(text) gives val, or raises ValueError
Text(n) == [int |-> TRUE, val |-> n]
NotANumber == [int |-> FALSE, val |-> 0]
\* the texts the user may have typed in the two entry fields
BatchInputs == {Text(n) : n \in 0..(Len(Pool) + 1)} \cup {NotANumber}
IntervalInputs == {Text(5), Text(10), NotANumber}

(* ------------------------------ helpers -------------------------------- *)
Range(s) == {s[i] : i \in 1..Len(s)}

RECURSIVE SortedSeq(_)
\* a list of indices in increasing order (vm_info is sorted by index)
SortedSeq(S) ==
    IF S = {} THEN <<>>
    ELSE LET m == CHOOSE x \in S : \A y \in S : x <= y
         IN  <<m>> \o SortedSeq(S \ {m})

\* list.index(x), 0-based
IndexOf(pool, x) == (CHOOSE i \in 1..Len(pool) : pool[i] = x /\ \A j \in 1..(i-1) : pool[j] # x) - 1

SetMin(S) == CHOOSE x \in S : \A y \in S : x <= y
SetMax(S) == CHOOSE x \in S : \A y \in S : x >= y

(* ---------------------- pure parts of the code ------------------------- *)
\* mutant of ComputeBatch: the batch starts one position late
ComputeBatchLate(pool, idx, bs) ==
    [i \in 1..bs |-> pool[((idx + i) % Len(pool)) + 1]]

\* vm_indices_to_start: batch_size members from current_index, wrapping
ComputeBatch(pool, idx, bs) ==
    [i \in 1..bs |-> pool[((idx + (i - 1)) % Len(pool)) + 1]]

\* mutant of AdvanceIndex: the cursor moves by one instance, not by one batch
AdvanceIndexByOne(idx, bs, n) == (idx + 1) % n

\* mutant of AdvanceIndex: the cursor does not wrap at the end of the pool
AdvanceIndexNoWrap(idx, bs, n) == idx + bs

\* current_index = (current_index + batch_size) % len(active_vm_indices)
AdvanceIndex(idx, bs, n) == (idx + bs) % n

\* last_routine_range = (min_idx, max_idx) over the batch's pool positions
RoutineRange(pool, batch) ==
    LET pos == {IndexOf(pool, batch[i]) : i \in 1..Len(batch)}
    IN  <<SetMin(pos) + 1, SetMax(pos) + 1>>

\* calculate_total_cycles: ceil(total_instances / batch_size), 0 when invalid
TotalCycles(total, bs) ==
    IF bs > 0 /\ bs <= total THEN (total + bs - 1) \div bs ELSE 0

\* batch_size read from batch_size_var, 1 when it is not a positive integer
EffectiveBatchSize(v) == IF v <= 0 THEN 1 ELSE v

\* the cycle boundary condition of the decision loop
CycleDue(cycling, lrr, t, interval) ==
    cycling /\ (lrr = None \/ (t - lrr) >= interval)

\* is_retry_attempt after a failed verification
RetryAfterFailure(retry) == ~retry

\* mutant of IndexAfterFailure: a failed retry leaves the cursor on the batch
IndexAfterFailureStay(retry, idx, bs, n) == idx

\* current_index after a failed verification
IndexAfterFailure(retry, idx, bs, n) ==
    IF retry THEN AdvanceIndex(idx, bs, n) ELSE idx

\* mutant of RunAfterFailure: a failed verification restarts the timer
RunAfterFailureNow(lrr, t) == t

\* last_routine_run after a failed verification: neither branch assigns it
RunAfterFailure(lrr, t) == lrr

\* mutant of ValidBatchSize: the size of the pool is not enforced
ValidBatchSizeAny(text, total) == text.int /\ text.val > 0

\* validate_batch_size: whether the value is returned (False otherwise)
ValidBatchSize(text, total) == text.int /\ text.val > 0 /\ text.val <= total

\* mutant of ValidInterval: the minimum of 10 seconds is not enforced
ValidIntervalPositive(text) == text.int /\ text.val > 0

\* validate_cycle_interval: whether the value is returned (False otherwise)
ValidInterval(text) == text.int /\ text.val > 0 /\ text.val >= MinInterval

(* ------------------------------ messages ------------------------------- *)
\* a dict put on update_queue; run/range/bs/iv are meaningful per kind
Msg(kind, run, range, bs, iv) ==
    [kind |-> kind, run |-> run, range |-> range, bs |-> bs, iv |-> iv]
\* start_cycle: {"reset_index", "batch_size", "cycle_interval", "reset_cycle"}
StartMsg(bs, iv) == Msg("start", None, NoRange, bs, iv)
\* stop_cycle: {"last_routine_run": None, "last_routine_range": None, "reset_cycle"}
StopMsg == Msg("stop", None, NoRange, 0, 0)
\* run_management: {"last_routine_run", "last_routine_range", "current_time", "status", "vm_info"}
ProgressMsg(run, range) == Msg("progress", run, range, 0, 0)
\* run_management: {"cycle_completed": True, "current_time"}
CompletedMsg == Msg("completed", None, NoRange, 0, 0)
NoMsg == Msg("none", None, NoRange, 0, 0)
\* run_management's except clause: the progress message with status "Erro - ..."
ErrorMsg(run, range) == Msg("error", run, range, 0, 0)
\* a message carrying only the key the loop tests at "cycle_interval" in data
IntervalMsg(iv) == Msg("interval", None, NoRange, 0, iv)

\* data.get("reset_index")
HasResetIndex(m) == m.kind = "start"
\* "last_routine_run" in data and data["last_routine_run"] is None
HasNoneRun(m) == m.kind = "stop" \/ (m.kind \in {"progress", "error"} /\ m.run = None)
\* "cycle_interval" in data
HasInterval(m) == m.kind \in {"start", "interval"}
\* data.get("reset_cycle")
HasResetCycle(m) == m.kind \in {"start", "stop"}

VARIABLES
    \* the instances, as MuMuManager reports them
    is_process_started, is_android_started, has_error,
    \* the instances whose query or control call may fail
    flaky,
    \* time.time()
    now,
    \* shared between the threads
    update_queue, is_cycling, global_should_stop, batch_size_var,
    \* run_management
    pc, data, last_routine_run, last_routine_range, current_cycle_interval,
    current_index, is_retry_attempt, vm_info,
    running_vms, todo, batch_size, vm_indices_to_start, polls,
    batch_started_successfully,
    \* the Tk thread
    ui_pc, ui_todo, ui_batch, ui_interval, cycle_count,
    \* history: the batch whose single retry is owed, the stop calls of the cycle,
    \* the number of clicks so far
    owed, stop_calls, clicks,
    \* history: the start calls the loop issued since "Parar Ciclo" (up to 2), and
    \* whether no batch was computed yet since "Iniciar Ciclo" was accepted
    starts_since_stop, awaiting_first,
    \* the rotation arithmetic specification
    rot,
    \* the specification of one control_instances call
    ctl,
    \* the specification of one get_vm_info call
    info

worldVars == <<is_process_started, is_android_started, has_error>>
sharedVars == <<update_queue, is_cycling, global_should_stop, batch_size_var>>
loopVars == <<pc, data, last_routine_run, last_routine_range, current_cycle_interval,
              current_index, is_retry_attempt, vm_info,
              running_vms, todo, batch_size, vm_indices_to_start, polls,
              batch_started_successfully>>
uiVars == <<ui_pc, ui_todo, ui_batch, ui_interval, cycle_count>>
histVars == <<owed, stop_calls, clicks, starts_since_stop, awaiting_first>>
vars == <<worldVars, flaky, now, sharedVars, loopVars, uiVars, histVars, rot, ctl, info>>

NoRot == [pool |-> <<>>, b |-> 0, start |-> 0, idx |-> 0, cycles |-> 0,
          batches |-> <<>>, ranges |-> <<>>, cursors |-> <<>>]

\* no control_instances call is followed on its own
NoCtl == [vm_indices |-> <<>>, action |-> "", left |-> <<>>, issued |-> <<>>,
          outcomes |-> <<>>,
          successful_indices |-> <<>>, failed_indices |-> <<>>, returned |-> FALSE]

\* no get_vm_info call is followed on its own
NoInfo == [result |-> <<>>, pending |-> {}, vm_info |-> <<>>, returned |-> FALSE]

\* "Parar Ciclo" was the last command: the cycle is off and neither start_cycle
\* nor close_window has been entered since
Stopped == ~is_cycling /\ ui_pc \in {"idle", "stop_query", "stop_stop"}

(* ------------------------------ the instances -------------------------- *)
\* get_vm_info: the instances whose query succeeded (the others are absent)
Views == {Workers \ m : m \in SUBSET flaky}

\* mutant of RunningVms: no running instance is found
RunningVmsNone(seen) == <<>>

\* mutant of RunningVms: the main instance is not filtered out
RunningVmsWithMain(seen) ==
    SortedSeq({w \in seen : is_process_started[w]})

\* [int(vm["index"]) for vm in ... if vm["status"] == "running" and not vm["is_main"]]
RunningVms(seen) ==
    SortedSeq({w \in seen : is_process_started[w] /\ w # MainVm})

\* the outcomes of one MuMuManager control call for instance idx
CallOutcomes(idx) == IF idx \in flaky THEN BOOLEAN ELSE {TRUE}

\* control_instances: the indices still to be called after the first of the list
Remaining(indices) == Tail(indices)

\* mutant of CallsReturned: the caller goes on while calls are still to be made
CallsReturnedEarly(left) == TRUE

\* control_instances has returned: the call was made for every index of its list
CallsReturned(left) == left = <<>>

\* one "MuMuManager control <action> -v idx" call that returned ok
Control(idx, action, ok) ==
    IF ~ok THEN UNCHANGED worldVars
    ELSE IF action = START
    THEN /\ is_process_started' = [is_process_started EXCEPT ![idx] = TRUE]
         /\ is_android_started' = is_android_started
         /\ has_error' = IF is_process_started[idx] THEN has_error
                         ELSE [has_error EXCEPT ![idx] = FALSE]
    ELSE /\ is_process_started' = [is_process_started EXCEPT ![idx] = FALSE]
         /\ is_android_started' = [is_android_started EXCEPT ![idx] = FALSE]
         /\ has_error' = [has_error EXCEPT ![idx] = FALSE]

\* a started instance finishes booting Android
EnvBoot(w) ==
    /\ w # MainVm
    /\ is_process_started[w] /\ ~is_android_started[w] /\ ~has_error[w]
    /\ is_android_started' = [is_android_started EXCEPT ![w] = TRUE]
    /\ UNCHANGED <<is_process_started, has_error, flaky, now, sharedVars,
                   loopVars, uiVars, histVars, rot, ctl, info>>

\* a started instance reports a launch error
EnvError(w) ==
    /\ w # MainVm
    /\ is_process_started[w] /\ ~has_error[w]
    /\ has_error' = [has_error EXCEPT ![w] = TRUE]
    /\ UNCHANGED <<is_process_started, is_android_started, flaky, now, sharedVars,
                   loopVars, uiVars, histVars, rot, ctl, info>>

\* time passes while the decision loop sleeps or waits for a call; the clock is
\* followed in steps of the smallest interval the window accepts
Tick ==
    /\ now < MaxTime
    /\ pc \notin {"drain", "process", "done"}
    /\ now' = now + MinInterval
    /\ UNCHANGED <<worldVars, flaky, sharedVars, loopVars, uiVars, histVars, rot, ctl, info>>

(* ------------------------------ initial state -------------------------- *)
\* main() and ensure_clean_startup have stopped every non-main instance
InitWorld ==
    /\ is_process_started = [w \in Workers |-> w = MainVm]
    /\ is_android_started = [w \in Workers |-> w = MainVm]
    /\ has_error = [w \in Workers |-> FALSE]
    /\ now = 0

InitProgram ==
    /\ update_queue = <<>>
    /\ is_cycling = FALSE
    /\ global_should_stop = FALSE
    /\ batch_size_var = 0
    /\ pc = "top"
    /\ data = NoMsg
    /\ last_routine_run = None
    /\ last_routine_range = NoRange
    /\ current_cycle_interval = 20
    /\ current_index = 0
    /\ is_retry_attempt = FALSE
    /\ vm_info = <<>>
    /\ running_vms = <<>>
    /\ todo = <<>>
    /\ batch_size = 0
    /\ vm_indices_to_start = <<>>
    /\ polls = 0
    /\ batch_started_successfully = FALSE
    /\ ui_pc = "idle"
    /\ ui_todo = <<>>
    /\ ui_batch = 0
    /\ ui_interval = 0
    /\ cycle_count = 0
    /\ owed = <<>>
    /\ stop_calls = {}
    /\ clicks = 0
    /\ starts_since_stop = 0
    /\ awaiting_first = FALSE

Init ==
    /\ InitWorld
    /\ flaky \in {{}}
    /\ InitProgram
    /\ rot = NoRot
    /\ ctl = NoCtl
    /\ info = NoInfo

(* --------------------- run_management: the decision loop --------------- *)
\* what one dequeued message does to the loop's state
IndexAfterMessage(m, idx) == IF HasResetIndex(m) \/ HasResetCycle(m) THEN 0 ELSE idx
RunAfterMessage(m, lrr) == IF HasNoneRun(m) \/ HasResetCycle(m) THEN None ELSE lrr
\* mutant of RangeAfterMessage: a reset leaves the range as it was
RangeAfterMessageKeep(m, rng) == rng

RangeAfterMessage(m, rng) == IF HasNoneRun(m) \/ HasResetCycle(m) THEN NoRange ELSE rng
\* mutant of IntervalAfterMessage: the interval of a message is ignored
IntervalAfterMessageKeep(m, iv) == iv

IntervalAfterMessage(m, iv) == IF HasInterval(m) THEN m.iv ELSE iv
\* no branch of the message handling assigns is_retry_attempt
RetryAfterMessage(m, retry) == retry

\* mutant of ReadyInBatch: any started instance counts, in the batch or not
ReadyAnywhere(seen, batch) ==
    {w \in seen : is_android_started[w]}

\* is_android_started members of the batch in a snapshot
ReadyInBatch(seen, batch) ==
    {w \in seen : is_android_started[w] /\ w \in Range(batch)}
\* has_error members of the batch in a snapshot
ErroredInBatch(seen, batch) ==
    {w \in seen : w \in Range(batch) /\ has_error[w]}
\* mutant of PollVerdict: errors do not end the window early
PollVerdictNoFailFast(seen, batch) ==
    IF Cardinality(ReadyInBatch(seen, batch)) > 0 THEN "success" ELSE "wait"

\* the verdict of one verification poll: "success", "failed" or "wait"
PollVerdict(seen, batch) ==
    IF Cardinality(ReadyInBatch(seen, batch)) > 0 THEN "success"
    ELSE IF Cardinality(ErroredInBatch(seen, batch)) = Len(batch) THEN "failed"
    ELSE "wait"

\* top of the loop: the shutdown flag, then the refresh of vm_info
MTop ==
    /\ pc = "top"
    /\ IF global_should_stop
       THEN /\ update_queue' = Append(update_queue,
                                      ProgressMsg(last_routine_run, last_routine_range))
            /\ todo' = vm_info
            /\ pc' = IF vm_info = <<>> THEN "done" ELSE "shutdown_stop"
            /\ UNCHANGED vm_info
       ELSE /\ \E seen \in Views : vm_info' = RunningVms(seen)
            /\ pc' = "drain"
            /\ UNCHANGED <<update_queue, todo>>
    /\ UNCHANGED <<worldVars, flaky, now, is_cycling, global_should_stop, batch_size_var,
                   data, last_routine_run, last_routine_range, current_cycle_interval,
                   current_index, is_retry_attempt, running_vms, batch_size,
                   vm_indices_to_start, polls, batch_started_successfully,
                   uiVars, histVars, rot, ctl, info>>

\* data = update_queue.get_nowait()
MGet ==
    /\ pc = "drain"
    /\ update_queue # <<>>
    /\ data' = Head(update_queue)
    /\ update_queue' = Tail(update_queue)
    /\ pc' = "process"
    /\ UNCHANGED <<worldVars, flaky, now, is_cycling, global_should_stop, batch_size_var,
                   last_routine_run, last_routine_range, current_cycle_interval,
                   current_index, is_retry_attempt, vm_info,
                   running_vms, todo, batch_size, vm_indices_to_start, polls,
                   batch_started_successfully, uiVars, histVars, rot, ctl, info>>

\* the ifs applied to the dequeued message
MProcess ==
    /\ pc = "process"
    /\ current_index' = IndexAfterMessage(data, current_index)
    /\ last_routine_run' = RunAfterMessage(data, last_routine_run)
    /\ last_routine_range' = RangeAfterMessage(data, last_routine_range)
    /\ current_cycle_interval' = IntervalAfterMessage(data, current_cycle_interval)
    /\ is_retry_attempt' = RetryAfterMessage(data, is_retry_attempt)
    /\ data' = NoMsg
    /\ pc' = "drain"
    /\ UNCHANGED <<worldVars, flaky, now, sharedVars, vm_info,
                   running_vms, todo, batch_size, vm_indices_to_start, polls,
                   batch_started_successfully, uiVars, histVars, rot, ctl, info>>

\* queue drained: the progress message, the cycle boundary check, and on a due
\* cycle the snapshot of the running instances
MDrainDone ==
    /\ pc = "drain"
    /\ update_queue = <<>>
    /\ \E recent \in BOOLEAN :
         update_queue' = IF is_cycling \/ recent
                         THEN <<ProgressMsg(last_routine_run, last_routine_range)>>
                         ELSE <<>>
    /\ IF CycleDue(is_cycling, last_routine_run, now, current_cycle_interval)
       THEN /\ \E seen \in Views : running_vms' = RunningVms(seen)
            /\ todo' = running_vms'
            /\ pc' = "stop_prev"
       ELSE /\ pc' = "top"
            /\ UNCHANGED <<running_vms, todo>>
    /\ stop_calls' = {}
    /\ UNCHANGED <<worldVars, flaky, now, is_cycling, global_should_stop, batch_size_var,
                   data, last_routine_run, last_routine_range, current_cycle_interval,
                   current_index, is_retry_attempt, vm_info,
                   batch_size, vm_indices_to_start, polls, batch_started_successfully,
                   uiVars, owed, clicks, starts_since_stop, awaiting_first, rot, ctl, info>>

\* control_instances(running_vms, STOP): one index of the loop
MStopCall ==
    /\ pc = "stop_prev"
    /\ todo # <<>>
    /\ \E ok \in CallOutcomes(Head(todo)) : Control(Head(todo), STOP, ok)
    /\ todo' = Remaining(todo)
    /\ stop_calls' = stop_calls \cup {Head(todo)}
    /\ UNCHANGED <<flaky, now, sharedVars, pc, data, last_routine_run, last_routine_range,
                   current_cycle_interval, current_index, is_retry_attempt, vm_info,
                   running_vms, batch_size, vm_indices_to_start, polls,
                   batch_started_successfully, uiVars, owed, clicks, starts_since_stop, awaiting_first, rot, ctl, info>>

\* the next batch, once the stop calls have returned
MCompute ==
    /\ pc = "stop_prev"
    /\ CallsReturned(todo)
    /\ batch_size' = EffectiveBatchSize(batch_size_var)
    /\ vm_indices_to_start' = ComputeBatch(Pool, current_index, batch_size')
    /\ todo' = vm_indices_to_start'
    /\ pc' = "start"
    /\ awaiting_first' = FALSE
    /\ UNCHANGED <<worldVars, flaky, now, sharedVars, data, last_routine_run,
                   last_routine_range, current_cycle_interval, current_index,
                   is_retry_attempt, vm_info, running_vms, polls,
                   batch_started_successfully, uiVars, owed, stop_calls, clicks,
                   starts_since_stop, rot, ctl, info>>

\* control_instances(vm_indices_to_start, START): one index of the loop
MStartCall ==
    /\ pc = "start"
    /\ todo # <<>>
    /\ \E ok \in CallOutcomes(Head(todo)) : Control(Head(todo), START, ok)
    /\ todo' = Remaining(todo)
    /\ pc' = IF Remaining(todo) = <<>> THEN "verify" ELSE "start"
    /\ polls' = 0
    /\ batch_started_successfully' = FALSE
    /\ starts_since_stop' = IF Stopped /\ starts_since_stop < 2
                            THEN starts_since_stop + 1 ELSE starts_since_stop
    /\ UNCHANGED <<flaky, now, sharedVars, data, last_routine_run, last_routine_range,
                   current_cycle_interval, current_index, is_retry_attempt, vm_info,
                   running_vms, batch_size, vm_indices_to_start,
                   uiVars, owed, stop_calls, clicks, awaiting_first, rot, ctl, info>>

\* one poll of the verification window
MVerifyPoll ==
    /\ pc = "verify"
    /\ \E seen \in Views :
         /\ vm_info' = RunningVms(seen)
         /\ LET verdict == PollVerdict(seen, vm_indices_to_start)
            IN  /\ batch_started_successfully' = (verdict = "success")
                /\ polls' = IF verdict = "wait" THEN polls + 1 ELSE polls
                /\ pc' = IF verdict = "wait" /\ polls + 1 < MaxPolls
                         THEN "verify" ELSE "verified"
    /\ UNCHANGED <<worldVars, flaky, now, sharedVars, data, last_routine_run,
                   last_routine_range, current_cycle_interval, current_index,
                   is_retry_attempt, running_vms, todo, batch_size,
                   vm_indices_to_start, uiVars, histVars, rot, ctl, info>>

\* the batch start was confirmed
MSuccess ==
    /\ pc = "verified"
    /\ batch_started_successfully
    /\ last_routine_run' = now
    /\ current_index' = AdvanceIndex(current_index, batch_size, Len(Pool))
    /\ is_retry_attempt' = FALSE
    /\ last_routine_range' = RoutineRange(Pool, vm_indices_to_start)
    /\ update_queue' = Append(update_queue, CompletedMsg)
    /\ batch_started_successfully' = FALSE
    /\ running_vms' = <<>>
    /\ pc' = "top"
    /\ owed' = <<>>
    /\ stop_calls' = {}
    /\ UNCHANGED <<worldVars, flaky, now, is_cycling, global_should_stop, batch_size_var,
                   data, current_cycle_interval, vm_info, todo,
                   batch_size, vm_indices_to_start, polls, uiVars, clicks, starts_since_stop, awaiting_first, rot, ctl, info>>

\* the batch failed to start: the snapshot of the lingering instances
MFailQuery ==
    /\ pc = "verified"
    /\ ~batch_started_successfully
    /\ \E seen \in Views : todo' = RunningVms(seen)
    /\ pc' = "fail_stop"
    /\ UNCHANGED <<worldVars, flaky, now, sharedVars, data, last_routine_run,
                   last_routine_range, current_cycle_interval, current_index,
                   is_retry_attempt, vm_info, running_vms, batch_size,
                   vm_indices_to_start, polls, batch_started_successfully,
                   uiVars, histVars, rot, ctl, info>>

\* control_instances(vms_to_stop, STOP): one index of the loop
MFailStopCall ==
    /\ pc = "fail_stop"
    /\ todo # <<>>
    /\ \E ok \in CallOutcomes(Head(todo)) : Control(Head(todo), STOP, ok)
    /\ todo' = Remaining(todo)
    /\ UNCHANGED <<flaky, now, sharedVars, pc, data, last_routine_run, last_routine_range,
                   current_cycle_interval, current_index, is_retry_attempt, vm_info,
                   running_vms, batch_size, vm_indices_to_start, polls,
                   batch_started_successfully, uiVars, histVars, rot, ctl, info>>

\* retry the same batch once, or give up and move to the next batch
MFailDecide ==
    /\ pc = "fail_stop"
    /\ todo = <<>>
    /\ current_index' = IndexAfterFailure(is_retry_attempt, current_index, batch_size,
                                          Len(Pool))
    /\ is_retry_attempt' = RetryAfterFailure(is_retry_attempt)
    /\ running_vms' = <<>>
    /\ pc' = "top"
    /\ owed' = IF owed = vm_indices_to_start THEN <<>> ELSE vm_indices_to_start
    /\ stop_calls' = {}
    /\ last_routine_run' = RunAfterFailure(last_routine_run, now)
    /\ UNCHANGED <<worldVars, flaky, now, sharedVars, data,
                   last_routine_range, current_cycle_interval, vm_info,
                   todo, batch_size, vm_indices_to_start, polls,
                   batch_started_successfully, uiVars, clicks, starts_since_stop,
                   awaiting_first, rot, ctl, info>>

\* "Limpando...": the final stop of the instances running in the cached vm_info
MShutdownStopCall ==
    /\ pc = "shutdown_stop"
    /\ todo # <<>>
    /\ \E ok \in CallOutcomes(Head(todo)) : Control(Head(todo), STOP, ok)
    /\ todo' = Remaining(todo)
    /\ pc' = IF Remaining(todo) = <<>> THEN "done" ELSE "shutdown_stop"
    /\ UNCHANGED <<flaky, now, sharedVars, data, last_routine_run, last_routine_range,
                   current_cycle_interval, current_index, is_retry_attempt, vm_info,
                   running_vms, batch_size, vm_indices_to_start, polls,
                   batch_started_successfully, uiVars, histVars, rot, ctl, info>>

(* ------------------------------ the Tk thread -------------------------- *)
\* update_ui's handling of one message: the session's cycle count
CountAfterMessage(m, count) ==
    LET c == IF HasResetCycle(m) THEN 0 ELSE count
    IN  IF m.kind = "completed" THEN c + 1 ELSE c

\* the count, followed up to MaxCount
Capped(c) == IF c > MaxCount THEN MaxCount ELSE c

\* "Iniciar Ciclo" (enabled while not cycling): validation, then the snapshot of
\* the running instances to stop; invalid values leave everything as it is
UIStartClick(b, iv) ==
    /\ ui_pc = "idle"
    /\ ~is_cycling
    /\ clicks < MaxClicks
    /\ clicks' = clicks + 1
    /\ IF ValidBatchSize(b, Len(Pool)) /\ ValidInterval(iv)
       THEN /\ ui_batch' = b.val
            /\ ui_interval' = iv.val
            /\ \E seen \in Views : ui_todo' = RunningVms(seen)
            /\ ui_pc' = "start_stop"
       ELSE UNCHANGED <<ui_pc, ui_todo, ui_batch, ui_interval>>
    /\ UNCHANGED <<worldVars, flaky, now, sharedVars, loopVars, cycle_count,
                   owed, stop_calls, starts_since_stop, awaiting_first, rot, ctl, info>>

\* start_cycle: control_instances(running_vms, STOP), one index of the loop
UIStartStopCall ==
    /\ ui_pc = "start_stop"
    /\ ui_todo # <<>>
    /\ \E ok \in CallOutcomes(Head(ui_todo)) : Control(Head(ui_todo), STOP, ok)
    /\ ui_todo' = Remaining(ui_todo)
    /\ UNCHANGED <<flaky, now, sharedVars, loopVars, ui_pc, ui_batch, ui_interval,
                   cycle_count, histVars, rot, ctl, info>>

\* start_cycle: batch_size.set(batch_size_val); is_cycling = True; cycle_count = 0
UIStartActivate ==
    /\ ui_pc = "start_stop"
    /\ ui_todo = <<>>
    /\ batch_size_var' = ui_batch
    /\ is_cycling' = TRUE
    /\ cycle_count' = 0
    /\ ui_pc' = "start_put"
    /\ starts_since_stop' = 0
    /\ awaiting_first' = TRUE
    /\ UNCHANGED <<worldVars, flaky, now, update_queue, global_should_stop, loopVars,
                   ui_todo, ui_batch, ui_interval, owed, stop_calls, clicks, rot, ctl, info>>

\* start_cycle: the queue is cleared and the start message is put
UIStartPut ==
    /\ ui_pc = "start_put"
    /\ update_queue' = <<StartMsg(ui_batch, ui_interval)>>
    /\ ui_pc' = "idle"
    /\ UNCHANGED <<worldVars, flaky, now, is_cycling, global_should_stop, batch_size_var,
                   loopVars, ui_todo, ui_batch, ui_interval, cycle_count, histVars, rot, ctl, info>>

\* "Parar Ciclo" (enabled while cycling): is_cycling = False; cycle_count = 0
UIStopClick ==
    /\ ui_pc = "idle"
    /\ is_cycling
    /\ clicks < MaxClicks
    /\ clicks' = clicks + 1
    /\ is_cycling' = FALSE
    /\ cycle_count' = 0
    /\ ui_pc' = "stop_query"
    /\ starts_since_stop' = 0
    /\ awaiting_first' = FALSE
    /\ UNCHANGED <<worldVars, flaky, now, update_queue, global_should_stop,
                   batch_size_var, loopVars, ui_todo, ui_batch, ui_interval,
                   owed, stop_calls, rot, ctl, info>>

\* stop_cycle: the snapshot of the running instances
UIStopQuery ==
    /\ ui_pc = "stop_query"
    /\ \E seen \in Views : ui_todo' = RunningVms(seen)
    /\ ui_pc' = "stop_stop"
    /\ UNCHANGED <<worldVars, flaky, now, sharedVars, loopVars, ui_batch, ui_interval,
                   cycle_count, histVars, rot, ctl, info>>

\* stop_cycle: control_instances(running_vms, STOP), one index of the loop
UIStopCall ==
    /\ ui_pc = "stop_stop"
    /\ ui_todo # <<>>
    /\ \E ok \in CallOutcomes(Head(ui_todo)) : Control(Head(ui_todo), STOP, ok)
    /\ ui_todo' = Remaining(ui_todo)
    /\ UNCHANGED <<flaky, now, sharedVars, loopVars, ui_pc, ui_batch, ui_interval,
                   cycle_count, histVars, rot, ctl, info>>

\* stop_cycle: the queue is cleared and the reset message is put
UIStopPut ==
    /\ ui_pc = "stop_stop"
    /\ ui_todo = <<>>
    /\ update_queue' = <<StopMsg>>
    /\ ui_pc' = "idle"
    /\ UNCHANGED <<worldVars, flaky, now, is_cycling, global_should_stop, batch_size_var,
                   loopVars, ui_todo, ui_batch, ui_interval, cycle_count, histVars, rot, ctl, info>>

\* update_ui: one message taken from the queue
UIUpdate ==
    /\ ui_pc = "idle"
    /\ ~global_should_stop
    /\ update_queue # <<>>
    /\ cycle_count' = Capped(CountAfterMessage(Head(update_queue), cycle_count))
    /\ update_queue' = Tail(update_queue)
    /\ UNCHANGED <<worldVars, flaky, now, is_cycling, global_should_stop, batch_size_var,
                   loopVars, ui_pc, ui_todo, ui_batch, ui_interval, histVars, rot, ctl, info>>

\* close_window, confirmed: the shutdown flag
UIClose ==
    /\ ui_pc = "idle"
    /\ global_should_stop' = TRUE
    /\ is_cycling' = FALSE
    /\ ui_pc' = "closed"
    /\ UNCHANGED <<worldVars, flaky, now, update_queue, batch_size_var, loopVars,
                   ui_todo, ui_batch, ui_interval, cycle_count, histVars, rot, ctl, info>>

(* ------------------------------ specification -------------------------- *)
Next ==
    \/ MTop \/ MGet \/ MProcess \/ MDrainDone
    \/ MStopCall \/ MCompute \/ MStartCall \/ MVerifyPoll
    \/ MSuccess \/ MFailQuery \/ MFailStopCall \/ MFailDecide
    \/ MShutdownStopCall
    \/ \E b \in BatchInputs, iv \in IntervalInputs : UIStartClick(b, iv)
    \/ UIStartStopCall \/ UIStartActivate \/ UIStartPut
    \/ UIStopClick \/ UIStopQuery \/ UIStopCall \/ UIStopPut
    \/ UIUpdate \/ UIClose
    \/ \E w \in PoolSet : EnvBoot(w)
    \/ \E w \in PoolSet : EnvError(w)
    \/ Tick

Spec == Init /\ [][Next]_vars

(* ---------------- the rotation arithmetic, cycle after cycle ------------- *)
\* a pool of n non-main instances: indices 10, 11, ...
RotPool(n) == [i \in 1..n |-> 9 + i]

InitRot ==
    /\ InitWorld
    /\ flaky = {}
    /\ InitProgram
    /\ \E n \in 1..MaxPool : \E b \in 1..n : \E c \in 0..(n - 1) :
         rot = [pool |-> RotPool(n), b |-> b, start |-> c, idx |-> c, cycles |-> 0,
                batches |-> <<>>, ranges |-> <<>>, cursors |-> <<>>]
    /\ ctl = NoCtl
    /\ info = NoInfo

\* one cycle whose verification succeeds: the batch, its range, the new cursor
RotCycle ==
    /\ rot.cycles < MaxRotCycles
    /\ LET batch == ComputeBatch(rot.pool, rot.idx, rot.b)
           next == AdvanceIndex(rot.idx, rot.b, Len(rot.pool))
       IN  rot' = [rot EXCEPT !.idx = next,
                              !.cycles = @ + 1,
                              !.batches = Append(@, batch),
                              !.ranges = Append(@, RoutineRange(rot.pool, batch)),
                              !.cursors = Append(@, next)]
    /\ UNCHANGED <<worldVars, flaky, now, sharedVars, loopVars, uiVars, histVars, ctl,
                   info>>

NextRot == RotCycle

SpecRot == InitRot /\ [][NextRot]_vars

\* the cursor before cycle k of the rotation
CursorBefore(k) == IF k = 1 THEN rot.start ELSE rot.cursors[k - 1]

(* ------------------------------- claims -------------------------------- *)
\* C6: the batch of every cycle is batch_size consecutive members of the pool
\* from the cursor, wrapping at the end of the pool; with pool [10..14] and
\* batch size 2 from cursor 0, four cycles start [10,11], [12,13], [14,10],
\* [11,12] and leave the cursor at 2, 4, 1, 3.
C6_BatchIsConsecutive ==
    /\ \A k \in 1..Len(rot.batches) :
         /\ Len(rot.batches[k]) = rot.b
         /\ \A i \in 1..rot.b :
              rot.batches[k][i] =
                  rot.pool[((CursorBefore(k) + i - 1) % Len(rot.pool)) + 1]
    /\ (rot.pool = <<10, 11, 12, 13, 14>> /\ rot.b = 2 /\ rot.start = 0 /\ rot.cycles = 4)
         => /\ rot.batches = << <<10, 11>>, <<12, 13>>, <<14, 10>>, <<11, 12>> >>
            /\ rot.cursors = <<2, 4, 1, 3>>

\* C6 witness: the fourth cycle of the example has run, after a wrapping batch
C6_Witness ==
    /\ rot.pool = <<10, 11, 12, 13, 14>> /\ rot.b = 2 /\ rot.start = 0
    /\ rot.cycles = 4
    /\ rot.batches[3] = <<14, 10>>

\* C7: the range reported for a batch computed at cursor c with batch size b in
\* a pool of n is (c+1, ((c+b-1) mod n)+1), so a wrapping batch has first > last.
C7_RangeIsFirstLast ==
    \A k \in 1..Len(rot.ranges) :
        rot.ranges[k] = <<CursorBefore(k) + 1,
                          ((CursorBefore(k) + rot.b - 1) % Len(rot.pool)) + 1>>

\* C8 as stated: after ceil(n/b) successful cycles the cursor is back at its
\* starting value.
C8_RotationCloses ==
    (rot.b > 0 /\ rot.cycles = TotalCycles(Len(rot.pool), rot.b))
        => rot.idx = rot.start

\* C8 amended: after ceil(n/b) successful cycles the cursor is back at its
\* starting value exactly when b divides n; otherwise it is ahead of that value
\* by ceil(n/b)*b - n positions.
C8_RotationClosesIffDivides ==
    (rot.b > 0 /\ rot.cycles = TotalCycles(Len(rot.pool), rot.b))
        => /\ rot.idx = rot.start <=> Len(rot.pool) % rot.b = 0
           /\ rot.idx = (rot.start + TotalCycles(Len(rot.pool), rot.b) * rot.b
                            - Len(rot.pool)) % Len(rot.pool)

\* C8 witness: a rotation of several cycles that closed
C8_Witness ==
    /\ rot.b > 0 /\ Len(rot.pool) = 4 /\ rot.b = 2 /\ rot.start = 1
    /\ rot.cycles = TotalCycles(Len(rot.pool), rot.b)
    /\ rot.idx = rot.start

(* the steps of the decision loop, told by the variables only it writes *)
\* one poll of the verification window
PollStep == pc = "verify" /\ (polls' # polls \/ pc' = "verified")
\* the state update after a confirmed batch start
SuccessStep == pc = "verified" /\ batch_started_successfully /\ pc' = "top"
\* the retry decision after a failed batch start
FailDecideStep == pc = "fail_stop" /\ pc' = "top"
\* the loop applies the ifs to a dequeued message
ProcessStep == pc = "process" /\ pc' = "drain"
\* the running non-main instances
Running == {w \in PoolSet : is_process_started[w]}
\* the cycle-completed messages in a queue
Completed(q) == {i \in 1..Len(q) : q[i].kind = "completed"}

\* C1: the first failure of a batch sets is_retry_attempt and leaves
\* current_index unchanged; a second consecutive failure of the same batch
\* advances current_index by batch_size modulo the pool size and clears
\* is_retry_attempt. (owed is the batch whose first failure came just before.)
C1_RetryOnceThenAdvance ==
    [][FailDecideStep =>
         IF owed # vm_indices_to_start
         THEN is_retry_attempt' /\ current_index' = current_index
         ELSE /\ ~is_retry_attempt'
              /\ current_index' = (current_index + batch_size) % Len(Pool)]_vars

\* C2: when the decision loop has handled the message of a Stop, current_index
\* is 0, is_retry_attempt is false and last_routine_run is None.
C2_StopResetsState ==
    [][(ProcessStep /\ data.kind = "stop") =>
         /\ current_index' = 0
         /\ ~is_retry_attempt'
         /\ last_routine_run' = None]_vars

\* C3: a poll of the verification window resolves as success exactly when it
\* shows a member of the batch with is_android_started; only a poll sets success.
C3_SuccessIffMemberReady ==
    [][/\ PollStep =>
            ((pc' = "verified" /\ batch_started_successfully')
               <=> \E w \in Range(vm_indices_to_start) : is_android_started[w])
       /\ (batch_started_successfully' /\ ~batch_started_successfully) => PollStep]_vars

\* C3 witness: a batch of two was confirmed with one member ready and the other
\* one errored or not running, while an instance outside the pool was ready
C3_Witness ==
    /\ pc = "verified" /\ batch_started_successfully
    /\ vm_indices_to_start = <<10, 11>>
    /\ is_android_started[10]
    /\ ~is_android_started[11] /\ (has_error[11] \/ ~is_process_started[11])
    /\ is_android_started[MainVm]

C5_FailFast ==
    [][/\ (/\ PollStep
           /\ \A w \in Range(vm_indices_to_start) :
                  has_error[w] /\ ~is_android_started[w])
          => (pc' = "verified" /\ ~batch_started_successfully' /\ polls' = polls)
       /\ FailDecideStep =>
            /\ is_retry_attempt' = ~is_retry_attempt
            /\ current_index' = IF is_retry_attempt
                                THEN (current_index + batch_size) % Len(Pool)
                                ELSE current_index]_vars

\* C5 witness: the window was left at its first poll, all members errored
C5_Witness ==
    /\ pc = "verified" /\ ~batch_started_successfully /\ polls = 0
    /\ Len(vm_indices_to_start) = 2
    /\ \A w \in Range(vm_indices_to_start) : has_error[w] /\ ~is_android_started[w]

\* C9: when no query and no control call fails, the running non-main instances
\* all belong to the batch started last, so at most batch_size of them run.
C9_BoundedConcurrency ==
    flaky = {} =>
        /\ Running \subseteq Range(vm_indices_to_start)
        /\ Cardinality(Running) <= batch_size

\* C9 witness: the second batch of a rotation runs, the first one stopped
C9_Witness ==
    /\ flaky = {}
    /\ pc = "verify" /\ vm_indices_to_start = <<11>> /\ last_routine_run # None
    /\ Running = {11}

\* C10: while the start calls of a cycle are issued, and after them, a stop call
\* has returned for every instance the cycle's snapshot showed running; while
\* the stop calls are issued, no start call of the cycle has been issued.
C10_StopBeforeStart ==
    /\ pc \in {"start", "verify", "verified"} => Range(running_vms) \subseteq stop_calls
    /\ pc = "stop_prev" => stop_calls \cup Range(todo) = Range(running_vms)

\* C10 witness: the first start call of a cycle is about to be issued after the
\* two instances of the previous batch were stopped
C10_Witness ==
    /\ pc = "start" /\ todo = vm_indices_to_start
    /\ Len(running_vms) = 2 /\ stop_calls = Range(running_vms)
    /\ Running = {}

\* one start call of the decision loop
StartCallStep == pc = "start" /\ todo # <<>> /\ todo' # todo
\* update_ui takes the first message of the queue
UIUpdateStep ==
    /\ update_queue # <<>> /\ update_queue' = Tail(update_queue)
    /\ pc' = pc /\ ui_pc = "idle" /\ ui_pc' = "idle"
\* the decision loop takes the first message of the queue
GetStep == pc = "drain" /\ pc' = "process"

\* C11: from "Parar Ciclo" until the next "Iniciar Ciclo", the decision loop issues
\* at most the one start call that was in flight, does not advance current_index
\* (it may reset it to 0), does not set last_routine_run (it may reset it to None)
\* and puts no cycle-completed message.
C11_StopPreempts ==
    [][Stopped =>
         /\ StartCallStep => starts_since_stop = 0
         /\ current_index' \in {current_index, 0}
         /\ last_routine_run' \in {last_routine_run, None}
         /\ Cardinality(Completed(update_queue'))
                <= Cardinality(Completed(update_queue))]_vars

\* C12: once stop_cycle has returned and the decision loop is between two
\* cycles, no non-main instance is running, until the next "Iniciar Ciclo".
C12_StoppedNoneRunning ==
    (Stopped /\ ui_pc = "idle" /\ pc \in {"top", "drain", "process"})
        => Running = {}

\* the decision loop computes the batch of a cycle
ComputeStep == pc = "stop_prev" /\ pc' = "start"
\* the messages of one kind in a queue
OfKind(q, kind) == {i \in 1..Len(q) : q[i].kind = kind}

\* C13: the first batch computed after "Iniciar Ciclo" was accepted is the
\* batch_size first members of the pool, computed with is_retry_attempt false
\* and last_routine_run None.
C13_FirstBatchFromZero ==
    [][(ComputeStep /\ awaiting_first) =>
         /\ Len(vm_indices_to_start') = batch_size_var
         /\ \A i \in 1..Len(vm_indices_to_start') : vm_indices_to_start'[i] = Pool[i]
         /\ ~is_retry_attempt
         /\ last_routine_run = None]_vars

\* C14: a start or stop message leaves the queue only by being dequeued by the
\* decision loop, which then applies it.
C14_CommandsReachLoop ==
    [][\A kind \in {"start", "stop"} :
         Cardinality(OfKind(update_queue', kind)) < Cardinality(OfKind(update_queue, kind))
             => GetStep /\ data' = Head(update_queue) /\ data'.kind = kind]_vars

\* C15: a cycle-completed message leaves the queue only by being received by
\* update_ui, which counts it.
C15_CompletedReachWindow ==
    [][Cardinality(Completed(update_queue')) < Cardinality(Completed(update_queue))
         => UIUpdateStep /\ Head(update_queue).kind = "completed"]_vars

\* C16: between the end of stop_cycle and the next "Iniciar Ciclo", update_ui
\* receives no cycle-completed message and no progress message with a
\* last_routine_run or a last_routine_range other than None.
C16_NoStaleAfterStop ==
    [][(UIUpdateStep /\ Stopped) =>
         /\ Head(update_queue).kind # "completed"
         /\ Head(update_queue).run = None
         /\ Head(update_queue).range = NoRange]_vars

(* --------------- stop_cycle called while the cycle is off ---------------- *)
\* The window disables "Parar Ciclo" while the cycle is off, so the program
\* itself never makes this call; it is the stop() of the control surface,
\* taken as one step: the snapshot, the stop calls for the running instances,
\* the clearing of the queue and the reset message.
StopCycleIdle ==
    /\ ui_pc = "idle"
    /\ ~is_cycling
    /\ pc \in {"top", "drain", "process"}
    /\ clicks < MaxClicks
    /\ clicks' = clicks + 1
    /\ is_cycling' = FALSE
    /\ cycle_count' = 0
    /\ \E seen \in Views :
         LET running == Range(RunningVms(seen))
         IN  /\ is_process_started' =
                    [w \in Workers |-> is_process_started[w] /\ w \notin running]
             /\ is_android_started' =
                    [w \in Workers |-> is_android_started[w] /\ w \notin running]
             /\ has_error' = [w \in Workers |-> has_error[w] /\ w \notin running]
    /\ update_queue' = <<StopMsg>>
    /\ UNCHANGED <<flaky, now, global_should_stop, batch_size_var, loopVars,
                   ui_pc, ui_todo, ui_batch, ui_interval,
                   owed, stop_calls, starts_since_stop, awaiting_first, rot, ctl, info>>

NextIdleStop == Next \/ StopCycleIdle

SpecIdleStop == Init /\ [][NextIdleStop]_vars

C18_InvalidStartRejected ==
    [][\A b \in BatchInputs, iv \in IntervalInputs :
         (/\ UIStartClick(b, iv)
          /\ ~(/\ b.int /\ b.val \in 1..Len(Pool)
               /\ iv.int /\ iv.val >= 10))
           => /\ UNCHANGED <<worldVars, sharedVars, loopVars>>
              /\ ~is_cycling'
              /\ ui_pc' = "idle"]_vars

\* C18 witness: the only click so far was a rejected "Iniciar Ciclo"
C18_Witness ==
    /\ clicks = 1 /\ ui_pc = "idle"
    /\ ~is_cycling /\ batch_size_var = 0 /\ update_queue = <<>>

\* C20: current_index is a position of the pool in every reachable state.
C20_CursorInRange ==
    current_index \in 0..(Len(Pool) - 1)

\* C20 witness: a batch of the whole pool was confirmed and the cursor wrapped
\* to the position it started from
C20_Witness ==
    /\ pc = "top" /\ batch_size = Len(Pool) /\ vm_indices_to_start = <<11, 10>>
    /\ last_routine_run = now /\ last_routine_range = <<1, 2>>
    /\ current_index = 1

(* ------------------ the rotation while the cycle stays on ---------------- *)
\* time passes; once the clock has reached MaxLiveTime the origin of time is
\* moved instead, so that the time since last_routine_run keeps growing up to
\* MaxLiveTime (the loop only compares that difference with the interval)
TickLive ==
    /\ pc \notin {"drain", "process", "done"}
    /\ IF now < MaxLiveTime
       THEN /\ now' = now + MinInterval
            /\ UNCHANGED last_routine_run
       ELSE /\ now' = now
            /\ last_routine_run' =
                   IF last_routine_run = None THEN None
                   ELSE IF last_routine_run >= MinInterval
                        THEN last_routine_run - MinInterval ELSE 0
    /\ UNCHANGED <<worldVars, flaky, sharedVars, pc, data, last_routine_range,
                   current_cycle_interval, current_index, is_retry_attempt, vm_info,
                   running_vms, todo, batch_size, vm_indices_to_start, polls,
                   batch_started_successfully, uiVars, histVars, rot, ctl, info>>

\* the steps of run_management while the window stays open
LoopLive ==
    \/ MTop \/ MGet \/ MProcess \/ MDrainDone
    \/ MStopCall \/ MCompute \/ MStartCall \/ MVerifyPoll
    \/ MSuccess \/ MFailQuery \/ MFailStopCall \/ MFailDecide

\* one accepted "Iniciar Ciclo", then no "Parar Ciclo" and no close_window.
\* No instance of the pool runs before the first start (InitWorld), so the
\* list start_cycle passes to control_instances is empty and its loop of stop
\* calls (UIStartStopCall) has no iteration here.
NextLive ==
    \/ LoopLive
    \/ \E b \in BatchInputs, iv \in IntervalInputs :
           ValidBatchSize(b, Len(Pool)) /\ ValidInterval(iv) /\ UIStartClick(b, iv)
    \/ UIStartActivate \/ UIStartPut
    \/ UIUpdate
    \/ \E w \in PoolSet : EnvBoot(w)
    \/ \E w \in PoolSet : EnvError(w)
    \/ TickLive

\* the thread of run_management keeps running, and time keeps advancing
SpecLive ==
    /\ Init /\ [][NextLive]_vars
    /\ WF_vars(LoopLive)
    /\ SF_vars(TickLive)

\* the start call for w was issued in the cycle the loop is in
StartIssued(w) ==
    /\ pc \in {"start", "verify"}
    /\ w \in Range(vm_indices_to_start) /\ w \notin Range(todo)

\* C19: while the cycle stays on and time advances, every member of the pool is
\* issued a start call again and again, whatever the batches that fail.
C19_RotationLiveness ==
    \A w \in PoolSet : is_cycling ~> StartIssued(w)

\* C19 witness: the batch [11] is about to be issued start after the previous
\* verification timed out (polls is reset by the first start call) and the retry
\* was spent, which moved the cursor to 1
C19_Witness ==
    /\ is_cycling /\ pc = "start"
    /\ vm_indices_to_start = <<11>> /\ todo = <<11>>
    /\ polls = MaxPolls /\ ~is_retry_attempt
    /\ current_index = 1 /\ last_routine_run = None

(* ------------------- one control_instances call on its own --------------- *)
RECURSIVE ListsOf(_, _)
\* the lists of n indices taken from S
ListsOf(S, n) ==
    IF n = 0 THEN {<<>>}
    ELSE {<<x>> \o l : x \in S, l \in ListsOf(S, n - 1)}

\* vm_indices of the call: any list of up to MaxCtlLen indices
CtlLists == UNION {ListsOf(Workers, n) : n \in 0..MaxCtlLen}

\* the call is followed from its entry; any instance's calls may fail
InitCtl ==
    /\ InitWorld
    /\ flaky \in SUBSET Workers
    /\ InitProgram
    /\ rot = NoRot
    /\ \E l \in CtlLists : \E a \in {START, STOP} :
         ctl = [vm_indices |-> l, action |-> a, left |-> l, issued |-> <<>>,
                outcomes |-> <<>>,
                successful_indices |-> <<>>, failed_indices |-> <<>>,
                returned |-> FALSE]
    /\ info = NoInfo

\* mutant of RemainingAfter: a failed call ends the loop
RemainingAbort(left, ok) == IF ok THEN Remaining(left) ELSE <<>>

\* control_instances: the except clause records the failure and the for loop
\* goes on with the next index
RemainingAfter(left, ok) == Remaining(left)

\* one iteration of "for idx in vm_indices": the call, then the append to
\* successful_indices or, on CalledProcessError / TimeoutExpired, to failed_indices
CtlCall ==
    /\ ~ctl.returned
    /\ ctl.left # <<>>
    /\ \E ok \in CallOutcomes(Head(ctl.left)) :
         /\ Control(Head(ctl.left), ctl.action, ok)
         /\ ctl' = [ctl EXCEPT
                      !.left = RemainingAfter(@, ok),
                      !.issued = Append(@, Head(ctl.left)),
                      !.outcomes = Append(@, ok),
                      !.successful_indices = IF ok THEN Append(@, Head(ctl.left)) ELSE @,
                      !.failed_indices = IF ok THEN @ ELSE Append(@, Head(ctl.left))]
    /\ UNCHANGED <<flaky, now, sharedVars, loopVars, uiVars, histVars, rot, info>>

\* return successful_indices, failed_indices (return [], [] for an empty list)
CtlReturn ==
    /\ ~ctl.returned
    /\ ctl.left = <<>>
    /\ ctl' = [ctl EXCEPT !.returned = TRUE]
    /\ UNCHANGED <<worldVars, flaky, now, sharedVars, loopVars, uiVars, histVars, rot,
                   info>>

NextCtl == CtlCall \/ CtlReturn

SpecCtl == InitCtl /\ [][NextCtl]_vars

RECURSIVE Kept(_, _, _)
\* the members of list whose call had outcome ok, in the order of the list
Kept(list, outs, ok) ==
    IF list = <<>> THEN <<>>
    ELSE (IF Head(outs) = ok THEN <<Head(list)>> ELSE <<>>)
             \o Kept(Tail(list), Tail(outs), ok)

\* C21: when control_instances returns, one call was issued for every index of
\* the list, in list order, whatever calls failed; the successful indices and the
\* failed indices are the indices whose call succeeded and failed, each in list
\* order, so for a list of distinct indices they partition it; an empty list
\* gives no call and two empty lists.
C21_ControlCallsEachOnce ==
    ctl.returned =>
        /\ ctl.issued = ctl.vm_indices
        /\ Len(ctl.outcomes) = Len(ctl.vm_indices)
        /\ ctl.successful_indices = Kept(ctl.vm_indices, ctl.outcomes, TRUE)
        /\ ctl.failed_indices = Kept(ctl.vm_indices, ctl.outcomes, FALSE)
        /\ Len(ctl.successful_indices) + Len(ctl.failed_indices) = Len(ctl.vm_indices)
        /\ Cardinality(Range(ctl.vm_indices)) = Len(ctl.vm_indices)
             => /\ Range(ctl.successful_indices) \cap Range(ctl.failed_indices) = {}
                /\ Range(ctl.successful_indices) \cup Range(ctl.failed_indices)
                       = Range(ctl.vm_indices)
        /\ ctl.vm_indices = <<>>
             => /\ ctl.issued = <<>>
                /\ ctl.successful_indices = <<>> /\ ctl.failed_indices = <<>>

\* C21 witness: a call over three instances returned after its first and its
\* last call had failed
C21_Witness ==
    /\ ctl.returned
    /\ ctl.vm_indices = <<11, 0, 10>> /\ ctl.action = START
    /\ ctl.issued = <<11, 0, 10>>
    /\ ctl.successful_indices = <<0>> /\ ctl.failed_indices = <<11, 10>>

(* ------------------------------- shutdown -------------------------------- *)
\* signal_handler: Ctrl+C sets the flag, whatever the two threads are doing
SignalHandler ==
    /\ ~global_should_stop
    /\ global_should_stop' = TRUE
    /\ UNCHANGED <<worldVars, flaky, now, update_queue, is_cycling, batch_size_var,
                   loopVars, uiVars, histVars, rot, ctl, info>>

\* the steps of run_management, its cleanup included
LoopDown == LoopLive \/ MShutdownStopCall

\* one accepted "Iniciar Ciclo", then close_window or Ctrl+C at any moment. As in
\* NextLive, start_cycle finds no running instance to stop.
NextDown ==
    \/ LoopDown
    \/ \E b \in BatchInputs, iv \in IntervalInputs :
           ValidBatchSize(b, Len(Pool)) /\ ValidInterval(iv) /\ UIStartClick(b, iv)
    \/ UIStartActivate \/ UIStartPut
    \/ UIUpdate \/ UIClose \/ SignalHandler
    \/ \E w \in PoolSet : EnvBoot(w)
    \/ \E w \in PoolSet : EnvError(w)
    \/ Tick

\* the thread of run_management keeps running (it is not a daemon thread)
SpecDown == Init /\ [][NextDown]_vars /\ WF_vars(LoopDown)

\* the decision loop leaves "while not global_should_stop"
ExitStep == pc = "top" /\ pc' \in {"shutdown_stop", "done"}

BoundaryStep == pc = "drain" /\ pc' \in {"top", "stop_prev"}

\* C23: the decision loop begins a cycle at a boundary check exactly when the
\* cycle is on and last_routine_run is None or current_cycle_interval seconds
\* old; and last_routine_run changes only when a batch is confirmed or a start
\* or stop message is handled, so a confirmed batch is not stopped by the loop
\* before its interval has elapsed.
C23_CycleBeginsWhenDue ==
    [][/\ BoundaryStep =>
            (pc' = "stop_prev" <=>
                 /\ is_cycling
                 /\ \/ last_routine_run = None
                    \/ now - last_routine_run >= current_cycle_interval)
       /\ last_routine_run' # last_routine_run =>
            \/ SuccessStep /\ last_routine_run' = now
            \/ ProcessStep /\ data.kind \in {"start", "stop"}]_vars

(* ------------------- a change of the interval mid-run -------------------- *)
\* the intervals an interval-change message carries
IntervalChanges == {3 * MinInterval}

\* The window never puts a message carrying only "cycle_interval"; this is the
\* updateInterval(seconds) of the control surface: such a message put on the
\* queue, for the branch of the message handling that tests that key.
SetInterval(iv) ==
    /\ clicks < MaxClicks
    /\ clicks' = clicks + 1
    /\ update_queue' = Append(update_queue, IntervalMsg(iv))
    /\ UNCHANGED <<worldVars, flaky, now, is_cycling, global_should_stop, batch_size_var,
                   loopVars, uiVars, owed, stop_calls, starts_since_stop,
                   awaiting_first, rot, ctl, info>>

\* one accepted "Iniciar Ciclo" and interval changes, no "Parar Ciclo" and no
\* close_window. As in NextLive, start_cycle finds no running instance to stop.
NextInterval ==
    \/ LoopLive
    \/ \E b \in BatchInputs, iv \in IntervalInputs :
           ValidBatchSize(b, Len(Pool)) /\ ValidInterval(iv) /\ UIStartClick(b, iv)
    \/ UIStartActivate \/ UIStartPut
    \/ UIUpdate
    \/ \E iv \in IntervalChanges : SetInterval(iv)
    \/ \E w \in PoolSet : EnvBoot(w)
    \/ \E w \in PoolSet : EnvError(w)
    \/ Tick

SpecInterval == Init /\ [][NextInterval]_vars

\* C24: handling a message that carries only an interval sets
\* current_cycle_interval to it and leaves current_index, is_retry_attempt,
\* last_routine_run and last_routine_range as they are; the interval changes at
\* no other step than the handling of a message that carries one, and the
\* boundary check, made once the queue is drained, uses current_cycle_interval.
C24_IntervalChangeOnly ==
    [][/\ (ProcessStep /\ data.kind = "interval") =>
            /\ current_cycle_interval' = data.iv
            /\ UNCHANGED <<current_index, is_retry_attempt, last_routine_run,
                           last_routine_range>>
       /\ current_cycle_interval' # current_cycle_interval =>
            ProcessStep /\ data.kind \in {"start", "interval"}
       /\ BoundaryStep =>
            (pc' = "stop_prev" <=>
                 /\ is_cycling
                 /\ \/ last_routine_run = None
                    \/ now - last_routine_run >= current_cycle_interval)]_vars

\* C24 witness: the loop has handled a message carrying only an interval (no
\* other message carries this one) and has drained the queue; a confirmed batch
\* is running, the interval given at the start has elapsed and the new one has
\* not, and cursor, timer and range are those of the confirmation
C24_Witness ==
    /\ pc = "drain" /\ update_queue = <<>> /\ is_cycling
    /\ current_cycle_interval = 3 * MinInterval
    /\ last_routine_run = 0 /\ now = MinInterval
    /\ current_index = 1 /\ last_routine_range = <<1, 1>>
    /\ vm_indices_to_start = <<10>> /\ ~is_retry_attempt

(* --------------------------- failed verifications ------------------------ *)
\* the cycle boundary condition holds, the cycle being on
DueNow ==
    last_routine_run = None \/ now - last_routine_run >= current_cycle_interval

\* the attempt made last failed: its retry is owed, or its window timed out
LastAttemptFailed == owed # <<>> \/ polls = MaxPolls

\* C25: from the failed verdict to the retry decision, last_routine_run and
\* last_routine_range keep their values and no cycle-completed message is put;
\* when the failure is decided the boundary condition holds, the handling of a
\* message never makes it false, and the boundary check that follows a failed
\* attempt, the cycle being on, begins the next attempt.
C25_FailureKeepsTimer ==
    [][/\ (pc \in {"verified", "fail_stop"} /\ ~batch_started_successfully) =>
            /\ last_routine_run' = last_routine_run
            /\ last_routine_range' = last_routine_range
            /\ Cardinality(Completed(update_queue'))
                   <= Cardinality(Completed(update_queue))
       /\ FailDecideStep => DueNow'
       /\ (ProcessStep /\ DueNow) => DueNow'
       /\ (BoundaryStep /\ is_cycling /\ LastAttemptFailed) => pc' = "stop_prev"]_vars

\* C25 witness: the batch [10] was confirmed at time 0; the batch [11], begun
\* when the interval had elapsed, failed; the boundary check that followed has
\* begun the retry at once, timer and range being those of [10]
C25_Witness ==
    /\ pc = "stop_prev" /\ is_cycling
    /\ owed = <<11>> /\ is_retry_attempt /\ current_index = 1
    /\ last_routine_run = 0 /\ now = MinInterval
    /\ last_routine_range = <<1, 1>>

\* C26: whenever the decision loop computes a batch with is_retry_attempt set,
\* the attempt made last was a failed first attempt of the same batch (owed is
\* the batch of that attempt), also after "Parar Ciclo" / "Iniciar Ciclo" and a
\* change of the batch size.
C26_RetryIsSameBatch ==
    [][(ComputeStep /\ is_retry_attempt) => vm_indices_to_start' = owed]_vars

\* C27: once the shutdown flag is set the decision loop issues no start call
\* and does not enter the verification window.
C27_NoStartAfterShutdown ==
    [][global_should_stop =>
         /\ ~StartCallStep
         /\ ~(pc = "start" /\ pc' = "verify")
         /\ ~PollStep]_vars

(* ------------------------------ the batch size --------------------------- *)
\* the decision loop is inside an attempt: from the computed batch to the
\* update of its state
InAttempt == pc \in {"start", "verify", "verified", "fail_stop"}

\* C28: in every attempt batch_size is in 1..len(pool) and the batch is
\* batch_size distinct members of the pool; batch_size keeps its value from the
\* computation of the batch to the end of the attempt, where the cursor advances
\* by that value.
C28_BatchSizeInRange ==
    [][/\ InAttempt =>
            /\ batch_size \in 1..Len(Pool)
            /\ Len(vm_indices_to_start) = batch_size
            /\ Cardinality(Range(vm_indices_to_start)) = batch_size
            /\ Range(vm_indices_to_start) \subseteq PoolSet
            /\ batch_size' = batch_size
            /\ vm_indices_to_start' = vm_indices_to_start
       /\ (SuccessStep \/ (FailDecideStep /\ is_retry_attempt)) =>
            current_index' = (current_index + Len(vm_indices_to_start)) % Len(Pool)]_vars

\* C28 witness: a batch of the whole pool computed at cursor 1 was confirmed
\* and the cursor, advanced by 2, is back at 1
C28_Witness ==
    /\ pc = "top" /\ batch_size = 2 /\ batch_size_var = 2
    /\ vm_indices_to_start = <<11, 10>>
    /\ last_routine_run = now /\ current_index = 1
    /\ update_queue # <<>> /\ update_queue[Len(update_queue)].kind = "completed"

(* ------------------------------ start_cycle ------------------------------ *)
\* start_cycle has accepted the entries and taken its snapshot
AcceptStep == ui_pc = "idle" /\ ui_pc' = "start_stop"
\* start_cycle sets is_cycling
ActivateStep == ui_pc = "start_stop" /\ ui_pc' = "start_put"

\* C29: an accepted "Iniciar Ciclo" lists every running non-main instance for a
\* stop call; is_cycling is set only when these calls have returned, and the
\* start message is put after that; from the acceptance until is_cycling is
\* set, no start call is issued.
C29_CleanSlateBeforeStart ==
    [][/\ AcceptStep => Range(ui_todo') = Running
       /\ ActivateStep => ui_todo = <<>>
       /\ (OfKind(update_queue', "start") # {} /\ OfKind(update_queue, "start") = {})
            => ui_pc = "start_put" /\ is_cycling
       /\ ui_pc = "start_stop" => ~StartCallStep]_vars

(* --------------------- errors raised inside an iteration ----------------- *)
\* mutant of AfterRaise: a raised error ends the loop
AfterRaiseExit == "done"

\* "except Exception" is inside the while: the loop goes on with its test
AfterRaise == "top"

\* where the body of the try makes a call that may raise (get_vm_info,
\* control_instances): the refresh, the stop step, the batch start, the
\* verification polls, the snapshot and the stop calls after a failure
RaisePoints == {"top", "stop_prev", "start", "verify", "verified", "fail_stop"}

\* an error is raised in the body of the try: the rest of the iteration is
\* skipped, the except clause puts the progress message that reports it and
\* sleeps; the loop's state keeps the values assigned so far
MRaise ==
    /\ pc \in RaisePoints
    /\ ~(pc = "top" /\ global_should_stop)
    /\ ~(pc = "verified" /\ batch_started_successfully)
    /\ Cardinality(OfKind(update_queue, "error")) < MaxErrors
    /\ update_queue' = Append(update_queue,
                              ErrorMsg(last_routine_run, last_routine_range))
    /\ pc' = AfterRaise
    /\ stop_calls' = {}
    /\ UNCHANGED <<worldVars, flaky, now, is_cycling, global_should_stop, batch_size_var,
                   data, last_routine_run, last_routine_range, current_cycle_interval,
                   current_index, is_retry_attempt, vm_info, running_vms, todo,
                   batch_size, vm_indices_to_start, polls, batch_started_successfully,
                   uiVars, owed, clicks, starts_since_stop, awaiting_first, rot, ctl, info>>

\* the queries and the control calls of the first instance of the pool may fail
InitRaise ==
    /\ InitWorld
    /\ flaky = {Pool[1]}
    /\ InitProgram
    /\ rot = NoRot
    /\ ctl = NoCtl
    /\ info = NoInfo

\* one accepted "Iniciar Ciclo", errors raised in the loop, Ctrl+C at any
\* moment. As in NextLive, start_cycle finds no running instance.
NextRaise ==
    \/ LoopDown
    \/ MRaise
    \/ \E b \in BatchInputs, iv \in IntervalInputs :
           ValidBatchSize(b, Len(Pool)) /\ ValidInterval(iv) /\ UIStartClick(b, iv)
    \/ UIStartActivate \/ UIStartPut
    \/ UIUpdate \/ SignalHandler
    \/ \E w \in PoolSet : EnvBoot(w)
    \/ Tick

SpecRaise == InitRaise /\ [][NextRaise]_vars

\* the except clause of the decision loop puts its message
RaiseStep ==
    Cardinality(OfKind(update_queue', "error")) > Cardinality(OfKind(update_queue, "error"))

\* a start call of the decision loop that failed (CalledProcessError or
\* TimeoutExpired, caught inside control_instances)
FailedStartStep ==
    /\ StartCallStep
    /\ ~is_process_started[Head(todo)] /\ ~is_process_started'[Head(todo)]
    /\ Head(todo) \in flaky

\* C30 as stated: a failing control call, like an error raised inside an
\* iteration, is reported by a progress message with the error as its status;
\* the loop goes on and leaves its while only with the shutdown flag set.
C30_FailuresReported ==
    [][/\ FailedStartStep => RaiseStep
       /\ RaiseStep => pc' = "top"
       /\ ExitStep => global_should_stop
       /\ (pc' \in {"shutdown_stop", "done"} /\ pc \notin {"shutdown_stop", "done"})
            => ExitStep]_vars

\* C30 amended: a failing control call is absorbed inside control_instances: no
\* message reports it and the iteration goes on with the next call or with the
\* verification. An error raised inside an iteration puts a progress message
\* that reports it and takes the loop back to its test, with cursor, retry
\* flag, timer, range and interval unchanged. The loop leaves its while only at
\* that test and only with the shutdown flag set.
C30_ErrorsAbsorbed ==
    [][/\ FailedStartStep =>
            /\ ~RaiseStep
            /\ pc' \in {"start", "verify"}
            /\ todo' = Remaining(todo)
       /\ RaiseStep =>
            /\ pc' = "top"
            /\ update_queue' = Append(update_queue,
                                      ErrorMsg(last_routine_run, last_routine_range))
            /\ UNCHANGED <<current_index, is_retry_attempt, last_routine_run,
                           last_routine_range, current_cycle_interval>>
       /\ ExitStep => global_should_stop
       /\ (pc' \in {"shutdown_stop", "done"} /\ pc \notin {"shutdown_stop", "done"})
            => ExitStep]_vars

\* C30 witness: the start call for instance 10 failed and the iteration went on
\* to the verification, where an error was raised; the loop is in its next
\* iteration, the flag not being set, and the message that reports the error
\* is the first of the queue
C30_Witness ==
    /\ pc = "drain" /\ ~global_should_stop /\ is_cycling
    /\ update_queue # <<>> /\ Head(update_queue).kind = "error"
    /\ vm_indices_to_start = <<10>> /\ todo = <<>> /\ ~is_process_started[10]
    /\ flaky = {10}
    /\ last_routine_run = None /\ ~is_retry_attempt /\ current_index = 0

(* --------------------- one get_vm_info call on its own ------------------ *)
\* range(21), followed on three of its indices: the main instance, another
\* index of one digit and an index of two digits
QueryIndices == {0, 2, 10}

\* how one query_vm ends: the dictionary of the instance, "return None" for an
\* error_code other than 0, or one of the three exceptions it catches
QueryOutcomes == {"ok", "error_code", "CalledProcessError", "TimeoutExpired",
                  "JSONDecodeError"}

\* vm_data["index"]: MuMuManager prints the index as a text (the rename command
\* takes vm["index"] as an argument as it is, and int() is applied wherever a
\* number is needed); the text is followed as its decimal digits
IndexText(n) == IF n < 10 THEN <<n>> ELSE <<n \div 10, n % 10>>

\* int(vm["index"])
IndexInt(t) == IF Len(t) = 1 THEN t[1] ELSE 10 * t[1] + t[2]

\* a < b for two str values: the first differing character decides, a proper
\* prefix is smaller
TextLess(a, b) ==
    \E k \in 1..(Len(a) + 1) :
        /\ \A j \in 1..(k - 1) : j <= Len(b) /\ a[j] = b[j]
        /\ IF k > Len(a) THEN k <= Len(b)
           ELSE k <= Len(b) /\ a[k] < b[k]

\* the place list.sort gives to e among the sorted entries s: after every entry
\* whose key is not greater (the sort is stable)
InsertByIndex(e, s) ==
    LET n == Cardinality({i \in 1..Len(s) : ~TextLess(e.index, s[i].index)})
    IN SubSeq(s, 1, n) \o <<e>> \o SubSeq(s, n + 1, Len(s))

RECURSIVE SortByIndex(_)
\* vm_info.sort(key=lambda x: x['index'])
SortByIndex(s) ==
    IF s = <<>> THEN <<>>
    ELSE InsertByIndex(s[Len(s)], SortByIndex(SubSeq(s, 1, Len(s) - 1)))

\* the call is entered: every query is submitted to the executor
InitInfo ==
    /\ InitWorld
    /\ flaky = {}
    /\ InitProgram
    /\ rot = NoRot
    /\ ctl = NoCtl
    /\ \E r \in [QueryIndices -> QueryOutcomes] :
         info = [result |-> r, pending |-> QueryIndices, vm_info |-> <<>>,
                 returned |-> FALSE]

\* one iteration of "for future in as_completed(...)": the queries complete in
\* any order; the result is appended unless it is None
QueryDone(i) ==
    /\ ~info.returned
    /\ i \in info.pending
    /\ info' = [info EXCEPT
                  !.pending = @ \ {i},
                  !.vm_info = IF info.result[i] = "ok"
                              THEN Append(@, [index |-> IndexText(i)])
                              ELSE @]
    /\ UNCHANGED <<worldVars, flaky, now, sharedVars, loopVars, uiVars, histVars, rot,
                   ctl>>

\* the sort and "return vm_info if vm_info else []"
InfoReturn ==
    /\ ~info.returned
    /\ info.pending = {}
    /\ info' = [info EXCEPT !.vm_info = SortByIndex(@), !.returned = TRUE]
    /\ UNCHANGED <<worldVars, flaky, now, sharedVars, loopVars, uiVars, histVars, rot,
                   ctl>>

NextInfo ==
    \/ \E i \in QueryIndices : QueryDone(i)
    \/ InfoReturn

SpecInfo == InitInfo /\ [][NextInfo]_vars

\* the indices of the entries of a snapshot, as numbers
IndicesOf(snapshot) == [k \in 1..Len(snapshot) |-> IndexInt(snapshot[k].index)]

\* C31: the snapshot get_vm_info returns holds exactly the instances whose query
\* succeeded, one entry each, in increasing order of their index; a query that
\* raised, timed out or gave an error code leaves its instance out and nothing
\* else.
C31_SnapshotOfSucceeded ==
    info.returned =>
        LET idx == IndicesOf(info.vm_info)
            succeeded == {i \in QueryIndices : info.result[i] = "ok"}
        IN /\ Range(idx) = succeeded
           /\ Len(idx) = Cardinality(succeeded)
           /\ \A k \in 1..(Len(idx) - 1) : idx[k] < idx[k + 1]

(* ------------------------ who writes the cycling state ------------------ *)
\* C32: is_cycling and the batch size (the IntVar the loop reads) are written
\* only by steps of the decision loop; the Tk thread changes them only through
\* the messages it puts on the queue, never by writing them itself.
C32_CyclingStateOwnedByLoop ==
    [][(is_cycling' # is_cycling \/ batch_size_var' # batch_size_var) => LoopDown]_vars

(* ---------------- the start message and the first batch ----------------- *)
\* C33: the decision loop begins no cycle between "is_cycling = True" of
\* start_cycle and the moment it takes the start message from the queue: the
\* reset of that message is applied while no batch has been computed since the
\* cycle was switched on.
C33_ResetBeforeFirstBatch ==
    [][/\ (pc = "drain" /\ pc' = "stop_prev")
            => (ui_pc # "start_put" /\ OfKind(update_queue, "start") = {})
       /\ (pc = "process" /\ data.kind = "start" /\ pc' = "drain")
            => awaiting_first]_vars

(* ----------------------- attempts of the same batch --------------------- *)
\* the start calls of the batch have been issued and the attempt is not over
Attempted == pc \in {"verify", "verified", "fail_stop"}

\* C34: an attempt whose start calls were issued ends either with the advance of
\* current_index (confirmed batch, or failed retry) or, when it was the first
\* attempt, with is_retry_attempt set; and is_retry_attempt is cleared only
\* together with an advance. Hence the same batch is attempted at most twice
\* between two advances, whatever fails or is raised inside the cycle.
C34_AtMostTwoAttempts ==
    [][/\ (Attempted /\ pc' = "top") =>
            \/ SuccessStep
            \/ FailDecideStep /\ is_retry_attempt
            \/ FailDecideStep /\ ~is_retry_attempt /\ is_retry_attempt'
       /\ (is_retry_attempt /\ ~is_retry_attempt') =>
            (SuccessStep \/ FailDecideStep)]_vars

(* --------------------------- the main instance -------------------------- *)
\* C35: no start or stop call of the program has the main instance as its
\* target: the lists of instances to stop never hold it, every batch is made of
\* indices of the pool, which does not hold it, and the main instance stays
\* as it was.
C35_MainNeverControlled ==
    /\ MainVm \notin Range(todo) \cup Range(ui_todo) \cup Range(running_vms)
                     \cup Range(vm_info)
    /\ Range(vm_indices_to_start) \subseteq PoolSet
    /\ MainVm \notin PoolSet
    /\ is_process_started[MainVm] /\ is_android_started[MainVm]

\* C35 witness: the decision loop is about to stop the previous batch; the main
\* instance runs like instance 10, and the list of the stop calls holds
\* instance 10 only
C35_Witness ==
    /\ pc = "stop_prev" /\ todo = <<10>>
    /\ is_process_started[MainVm] /\ is_process_started[10]
    /\ last_routine_run # None

(* ------------------------ the timer and the range ----------------------- *)
\* C36: last_routine_run is None exactly when last_routine_range is None: the
\* two are assigned together when a batch is confirmed and set to None together
\* by every message that resets one of them.
C36_RunAndRangeTogether ==
    (last_routine_run = None) <=> (last_routine_range = NoRange)

\* C36 witness: a batch was confirmed (its cycle-completed message is still
\* the first of the queue) and a reset handled after that has set both the time
\* and the range to None
C36_Witness ==
    /\ pc = "drain"
    /\ update_queue # <<>> /\ Head(update_queue).kind = "completed"
    /\ last_routine_run = None /\ last_routine_range = NoRange
    /\ is_android_started[10]

====
